---- MODULE Spec2Model ----
(***************************************************************************)
(* A model of the clearurl cleaning engine (src/src/lib.rs, hooks.rs):     *)
(* UrlCleaner::clear with its rule lookup, redirect resolution, query      *)
(* filtering (UrlCleaner::clean) and post-hook chain (Spec); the store     *)
(* construction of src/src/rules.rs (SpecExpand); a hook function called   *)
(* on its own (SpecHook); clear calls in flight together (SpecConc).       *)
(*                                                                         *)
(* Text is modelled as a sequence of tokens.  A token is one character, or *)
(* one percent-escape ("%20") of a query string.  Host names are compared  *)
(* only for equality by the code and are kept as strings.                  *)
(***************************************************************************)
EXTENDS Integers, Sequences, FiniteSets, TLC

VARIABLES
    store,      \* UrlCleaner.rules: domain -> Rule, fixed at construction
    pc,         \* position of the clear call: idle, redirect, clean, hooks, done
    input,      \* the raw input of the current call
    url,        \* the local `url` / `new_url` of clear
    rule,       \* the local `rule` of clear
    target,     \* the URL handed to clean (after the optional redirect)
    cleanOut,   \* what Self::clean returned
    hookIdx,    \* position of the hook chain in rule.post_hooks
    invoked,    \* names of the hook functions called so far in this call
    result,     \* what clear returned (or that it panicked)
    nredirect,  \* outbound resolutions made by this call
    gen,        \* 1 for a fresh call, +1 for each call on a previous result
    prev,       \* the previous call whose result was submitted again
    config,     \* RulesConfig::expand: the configuration and what is left of it
    hook,       \* a hook function called on its own: name, input, outcome
    calls       \* the clear calls in flight on one shared UrlCleaner

vars == <<store, pc, input, url, rule, target, cleanOut, hookIdx, invoked,
          result, nredirect, gen, prev, config, hook, calls>>

\* what a sequence of clear calls on a constructed UrlCleaner leaves alone
others == <<config, hook, calls>>

----------------------------------------------------------------------------
\* Bounds of the model

\* longest query string among the inputs, in tokens
MaxQueryLen == 5

\* longest identifier segment handed to a hook on its own, in characters
MaxIdLen == 13

\* clear calls in one behaviour: a fresh one and calls on earlier results
MaxCalls == 2

\* clear calls in flight at the same time on one UrlCleaner
MaxConcurrent == 2

----------------------------------------------------------------------------
\* Sequences

IsPrefix(p, s) == Len(p) <= Len(s) /\ SubSeq(s, 1, Len(p)) = p

\* p occurs somewhere in s
Occurs(p, s) ==
    \E i \in 0..(Len(s) - Len(p)) : SubSeq(s, i + 1, i + Len(p)) = p

\* index of the first c in s, 0 when there is none
RECURSIVE IndexFrom(_, _, _)
IndexFrom(s, c, i) ==
    IF i > Len(s) THEN 0
    ELSE IF s[i] = c THEN i
    ELSE IndexFrom(s, c, i + 1)

IndexOf(s, c) == IndexFrom(s, c, 1)

\* slice::split: the pieces of s between separators, empty pieces included
RECURSIVE Split(_, _)
Split(s, sep) ==
    LET i == IndexOf(s, sep)
    IN  IF i = 0 THEN <<s>>
        ELSE <<SubSeq(s, 1, i - 1)>> \o Split(SubSeq(s, i + 1, Len(s)), sep)

----------------------------------------------------------------------------
\* url::Url, as far as clear and the hooks read and write it

NoHost == [kind |-> "none", name |-> ""]
DomainHost(n) == [kind |-> "domain", name |-> n]
IpHost(n) == [kind |-> "ipv4", name |-> n]

RootPath == << <<>> >>

MkUrl(h, p, hq, q) ==
    [scheme |-> "https", host |-> h, path |-> p,
     hasQuery |-> hq, query |-> q, fragment |-> ""]

NullUrl == MkUrl(NoHost, <<>>, FALSE, <<>>)

\* Url::domain: Some only for a host that is a domain name
domain(u) ==
    IF u.host.kind = "domain"
    THEN [some |-> TRUE, name |-> u.host.name]
    ELSE [some |-> FALSE, name |-> ""]

\* Url::set_query(None)
set_query_none(u) == [u EXCEPT !.hasQuery = FALSE, !.query = <<>>]

\* Url::set_host(Some(domain))
set_host(u, n) == [u EXCEPT !.host = DomainHost(n)]

----------------------------------------------------------------------------
\* application/x-www-form-urlencoded, as url::form_urlencoded does it

\* one token of a query string to the character it stands for
DecodeToken(t) ==
    CASE t = "+"   -> " "
      [] t = "%20" -> " "
      [] t = "%2F" -> "/"
      [] t = "%2f" -> "/"
      [] t = "%3D" -> "="
      [] t = "%26" -> "&"
      [] t = "%2B" -> "+"
      [] OTHER     -> t

\* form_urlencoded::decode: '+' is a space, then percent-decoding
decode(s) == [i \in 1..Len(s) |-> DecodeToken(s[i])]

\* form_urlencoded::byte_serialize of one character: alphanumerics and
\* * - . _ stay, a space becomes '+', anything else is percent-encoded
EncodeChar(c) ==
    CASE c = " " -> "+"
      [] c = "/" -> "%2F"
      [] c = "=" -> "%3D"
      [] c = "&" -> "%26"
      [] c = "+" -> "%2B"
      [] OTHER   -> c

encode(s) == [i \in 1..Len(s) |-> EncodeChar(s[i])]

\* one non-empty piece between '&'s: split at the first '=', decode both
ParseOne(piece) ==
    LET i == IndexOf(piece, "=")
    IN  IF i = 0
        THEN [k |-> decode(piece), v |-> <<>>]
        ELSE [k |-> decode(SubSeq(piece, 1, i - 1)),
              v |-> decode(SubSeq(piece, i + 1, Len(piece)))]

RECURSIVE ParsePieces(_)
ParsePieces(pieces) ==
    IF pieces = <<>> THEN <<>>
    ELSE IF Head(pieces) = <<>> THEN ParsePieces(Tail(pieces))
    ELSE <<ParseOne(Head(pieces))>> \o ParsePieces(Tail(pieces))

\* form_urlencoded::parse: empty pieces are skipped
parse(q) == IF q = <<>> THEN <<>> ELSE ParsePieces(Split(q, "&"))

\* Url::query_pairs
query_pairs(u) == parse(u.query)

\* append_separator_if_needed: '&' unless nothing was written yet.
\* Url::query_pairs_mut gives the URL a query ("?") when it has none.
WithSeparator(u) == IF u.query # <<>> THEN u.query \o <<"&">> ELSE u.query

\* Serializer::append_key_only
append_key_only(u, k) ==
    [u EXCEPT !.hasQuery = TRUE, !.query = WithSeparator(u) \o encode(k)]

\* Serializer::append_pair
append_pair(u, k, v) ==
    [u EXCEPT !.hasQuery = TRUE,
              !.query = WithSeparator(u) \o encode(k) \o <<"=">> \o encode(v)]

----------------------------------------------------------------------------
\* regex::Regex for the patterns of the model: a literal, anchored at the
\* start ("^u") or not ("u")

Pat(anchored, lit) == [anchored |-> anchored, lit |-> lit]

\* Regex::is_match: an unanchored search
is_match(re, k) ==
    IF re.anchored THEN IsPrefix(re.lit, k) ELSE Occurs(re.lit, k)

----------------------------------------------------------------------------
\* Rule and results

MkRule(rd, rs, hs) == [redirect |-> rd, rules |-> rs, post_hooks |-> hs]

NullRule == MkRule(FALSE, <<>>, <<>>)

NoResult == [kind |-> "none", err |-> "", name |-> "", msg |-> "", url |-> NullUrl]
Ok(u) == [kind |-> "ok", err |-> "", name |-> "", msg |-> "", url |-> u]
Err(e) == [kind |-> "err", err |-> e, name |-> "", msg |-> "", url |-> NullUrl]
HookErr(n, m) ==
    [kind |-> "err", err |-> "HookExecutionError", name |-> n, msg |-> m,
     url |-> NullUrl]
Panicked == [kind |-> "panic", err |-> "", name |-> "", msg |-> "", url |-> NullUrl]

----------------------------------------------------------------------------
\* UrlCleaner::clean

\* the filter closure: no pattern of the rule matches the key
is_clean(r, p) == \A i \in 1..Len(r.rules) : ~is_match(r.rules[i], p.k)

\* the for_each closure: an empty value is written as a key alone
append_one(u, p) ==
    IF p.v = <<>> THEN append_key_only(u, p.k) ELSE append_pair(u, p.k, p.v)

RECURSIVE append_all(_, _)
append_all(u, ps) ==
    IF ps = <<>> THEN u ELSE append_all(append_one(u, Head(ps)), Tail(ps))

\* Iterator::filter over the pairs, in their order
RECURSIVE filter(_, _)
filter(r, ps) ==
    IF ps = <<>> THEN <<>>
    ELSE IF is_clean(r, Head(ps)) THEN <<Head(ps)>> \o filter(r, Tail(ps))
    ELSE filter(r, Tail(ps))

surviving(r, u) == filter(r, query_pairs(u))

clean(r, u) ==
    IF r.rules = <<>> THEN Err("NoMatchRule")
    ELSE IF ~u.hasQuery THEN Err("NoQuery")
    ELSE IF u.query = <<>> THEN Err("NoQuery")
    ELSE LET new_url == append_all(set_query_none(u), surviving(r, u))
         IN  IF new_url.hasQuery /\ new_url.query = u.query
             THEN Err("NothingToClear")
             ELSE Ok(new_url)

----------------------------------------------------------------------------
\* u64 arithmetic of the hooks: a number is four 16-bit limbs, lowest first

Base == 2^16

Limbs(l0, l1, l2, l3) == <<l0, l1, l2, l3>>

\* a number below 2^31 as a u64
U64(n) == Limbs(n % Base, n \div Base, 0, 0)

\* carries propagated upwards; what does not fit in 64 bits is dropped
Carry(a) ==
    LET c1 == a[1] \div Base
        c2 == (a[2] + c1) \div Base
        c3 == (a[3] + c2) \div Base
    IN  Limbs(a[1] % Base, (a[2] + c1) % Base, (a[3] + c2) % Base,
              (a[4] + c3) % Base)

AddU(a, b) == Carry([i \in 1..4 |-> a[i] + b[i]])

\* a times a small factor (below 2^15)
MulSmall(a, m) == Carry([i \in 1..4 |-> a[i] * m])

\* a - b modulo 2^64, and whether it wrapped
SubU(a, b) ==
    LET d1 == a[1] - b[1]
        w1 == IF d1 < 0 THEN 1 ELSE 0
        d2 == a[2] - b[2] - w1
        w2 == IF d2 < 0 THEN 1 ELSE 0
        d3 == a[3] - b[3] - w2
        w3 == IF d3 < 0 THEN 1 ELSE 0
        d4 == a[4] - b[4] - w3
        w4 == IF d4 < 0 THEN 1 ELSE 0
    IN  [val |-> Limbs(d1 + w1 * Base, d2 + w2 * Base, d3 + w3 * Base,
                       d4 + w4 * Base),
         wrapped |-> w4 = 1]

RECURSIVE XorBits(_, _)
XorBits(x, y) ==
    IF x = 0 /\ y = 0 THEN 0
    ELSE (((x % 2) + (y % 2)) % 2) + 2 * XorBits(x \div 2, y \div 2)

XorU(a, b) == [i \in 1..4 |-> XorBits(a[i], b[i])]

\* the ! of usize: every bit flipped
NotU(a) == [i \in 1..4 |-> (Base - 1) - a[i]]

\* a divided by ten: quotient and remainder
DivMod10(a) ==
    LET t4 == a[4]
        t3 == (t4 % 10) * Base + a[3]
        t2 == (t3 % 10) * Base + a[2]
        t1 == (t2 % 10) * Base + a[1]
    IN  [q |-> Limbs(t1 \div 10, t2 \div 10, t3 \div 10, t4 \div 10),
         r |-> t1 % 10]

Zero64 == Limbs(0, 0, 0, 0)

DigitChars == <<"0", "1", "2", "3", "4", "5", "6", "7", "8", "9">>

\* format!("{n}"): the decimal digits of n
RECURSIVE Decimal(_)
Decimal(a) ==
    LET d == DivMod10(a)
    IN  IF d.q = Zero64 THEN <<DigitChars[d.r + 1]>>
        ELSE Decimal(d.q) \o <<DigitChars[d.r + 1]>>

\* Pow58 as 58 * i, a product where the code has a power
Pow58_Multiplies(i) == U64(58 * i)

RECURSIVE Pow58(_)
Pow58(i) == IF i = 0 THEN U64(1) ELSE MulSmall(Pow58(i - 1), 58)

----------------------------------------------------------------------------
\* hooks.rs

TABLE ==
    <<"f","Z","o","d","R","9","X","Q","D","S","U","m","2","1","y","C","k","r",
      "6","z","B","q","i","v","e","Y","a","h","8","b","t","4","x","s","W","p",
      "H","n","J","E","7","j","L","5","V","G","3","g","u","M","T","K","N","P",
      "A","w","c","F">>

\* positions into the identifier, counted from 0
SELECT == <<11, 10, 3, 8, 4, 6>>

\* 177451812
XOR == Limbs(45860, 2707, 0, 0)

\* 8728348608
ADD == Limbs(1984, 2112, 2, 0)

\* TRANSLATE: character -> its position in TABLE, counted from 0;
\* -1 stands for a character the map has no entry for
TRANSLATE(c) == IndexOf(TABLE, c) - 1

HookOk(u) == [kind |-> "ok", url |-> u, msg |-> ""]
HookFail(m) == [kind |-> "err", url |-> NullUrl, msg |-> m]
HookPanic == [kind |-> "panic", url |-> NullUrl, msg |-> ""]

Video == <<"v", "i", "d", "e", "o">>

\* the fold over 0..6 of bv_to_av: acc + translated * 58^i
RECURSIVE BvSum(_, _)
BvSum(chars, i) ==
    IF i = 0 THEN Zero64
    ELSE AddU(BvSum(chars, i - 1),
              MulSmall(Pow58(i - 1), TRANSLATE(chars[SELECT[i] + 1])))

\* chars[select] is inside the identifier and TRANSLATE has the character
BvIndexable(chars) ==
    \A i \in 1..6 :
        /\ SELECT[i] + 1 <= Len(chars)
        /\ TRANSLATE(chars[SELECT[i] + 1]) >= 0

\* the path written by path_segments_mut().clear().extend(...)
BvPath(segments, avid) == <<segments[1], <<"a", "v">> \o Decimal(avid), <<>>>>

\* bv_to_av: the outcomes the build can produce.  An index outside the
\* identifier or a character outside TABLE panics; result - ADD below zero
\* panics in a build with overflow checks and wraps in one without.
bv_to_av(u) ==
    LET segments == u.path
    IN  IF ~domain(u).some THEN {HookFail("domain is empty")}
        ELSE IF segments = <<>>
        THEN {HookFail("url doesn't have path segment")}
        ELSE IF Len(segments) < 2 THEN {HookFail("path segment is too short")}
        ELSE IF segments[1] # Video THEN {HookFail("is not a video URL")}
        ELSE IF \/ ~IsPrefix(<<"B", "V">>, segments[2])
                \/ NotU(U64(Len(segments))) = U64(12)
        THEN {HookFail("is not a valid BV-encoded video URL")}
        ELSE IF ~BvIndexable(segments[2]) THEN {HookPanic}
        ELSE LET d == SubU(BvSum(segments[2], 6), ADD)
                 new_url == [u EXCEPT !.path = BvPath(segments, XorU(d.val, XOR))]
             IN  IF d.wrapped THEN {HookPanic, HookOk(new_url)}
                 ELSE {HookOk(new_url)}

\* fixup_twitter building its result from the new host and the path alone
fixup_twitter_Rebuilds(u) ==
    IF ~domain(u).some THEN {HookFail("domain is empty")}
    ELSE IF domain(u).name = "twitter.com"
    THEN {HookOk(MkUrl(DomainHost("fxtwitter.com"), u.path, FALSE, <<>>))}
    ELSE IF domain(u).name = "x.com"
    THEN {HookOk(MkUrl(DomainHost("fixupx.com"), u.path, FALSE, <<>>))}
    ELSE {HookFail("not a valid twitter URL")}

\* fixup_twitter
fixup_twitter(u) ==
    IF ~domain(u).some THEN {HookFail("domain is empty")}
    ELSE IF domain(u).name = "twitter.com"
    THEN {HookOk(set_host(u, "fxtwitter.com"))}
    ELSE IF domain(u).name = "x.com"
    THEN {HookOk(set_host(u, "fixupx.com"))}
    ELSE {HookFail("not a valid twitter URL")}

\* POST_HOOKS: the names that have a function
POST_HOOKS == {"bv_to_av", "fixup_twitter"}

\* POST_HOOKS[name](u)
hook_fn(name, u) ==
    IF name = "bv_to_av" THEN bv_to_av(u) ELSE fixup_twitter(u)

----------------------------------------------------------------------------
\* The rule store

\* Rules::get
StoreGet(s, d) ==
    IF d \in DOMAIN s THEN [some |-> TRUE, rule |-> s[d]]
    ELSE [some |-> FALSE, rule |-> NullRule]

\* the get_rule closure of clear.  The argument of unwrap_or is evaluated
\* before unwrap_or is called, so the unwrap() of the "default" lookup runs
\* on every call.
get_rule(s, d) ==
    LET dflt == StoreGet(s, "default")
        own == StoreGet(s, d)
    IN  IF ~dflt.some THEN [panic |-> TRUE, rule |-> NullRule]
        ELSE IF own.some THEN [panic |-> FALSE, rule |-> own.rule]
        ELSE [panic |-> FALSE, rule |-> dflt.rule]

----------------------------------------------------------------------------
\* The stores, inputs and redirect responses of the model

\* the patterns "^u", "u" and "^a"
PrefixU == Pat(TRUE, <<"u">>)
AnyU == Pat(FALSE, <<"u">>)
PrefixA == Pat(TRUE, <<"a">>)

StoreA ==
    [d \in {"default", "twitter.com", "x.com", "b23.tv", "www.bilibili.com",
            "empty.com", "t.me"} |->
        CASE d = "default"          -> MkRule(FALSE, <<PrefixU>>, <<>>)
          [] d = "twitter.com"      ->
                MkRule(FALSE, <<AnyU>>, <<"fixup_twitter", "bv_to_av">>)
          [] d = "x.com"            ->
                MkRule(FALSE, <<PrefixU>>, <<"bv_to_av", "fixup_twitter">>)
          [] d = "b23.tv"           ->
                MkRule(TRUE, <<PrefixA>>, <<"fixup_twitter">>)
          [] d = "www.bilibili.com" ->
                MkRule(FALSE, <<PrefixU, PrefixA>>, <<"bv_to_av">>)
          [] d = "empty.com"        -> MkRule(FALSE, <<>>, <<>>)
          [] d = "t.me"             ->
                MkRule(FALSE, <<PrefixU>>, <<"unknown-hook", "fixup_twitter">>)]

StoreB ==
    [d \in {"default", "twitter.com", "x.com", "b23.tv", "t.me"} |->
        CASE d = "default"     -> MkRule(FALSE, <<AnyU>>, <<>>)
          [] d = "twitter.com" ->
                MkRule(FALSE, <<PrefixU>>, <<"fixup_twitter", "fixup_twitter">>)
          [] d = "x.com"       -> MkRule(FALSE, <<>>, <<"fixup_twitter">>)
          [] d = "b23.tv"      -> MkRule(TRUE, <<PrefixA>>, <<>>)
          [] d = "t.me"        -> MkRule(FALSE, <<PrefixU>>, <<"unknown-hook">>)]

\* StoreA without its "default" entry
StoreNoDefault == [d \in DOMAIN StoreA \ {"default"} |-> StoreA[d]]

Stores == {StoreA, StoreB, StoreNoDefault}

QTokens == {"u", "a", "=", "&", "%20"}

SeqsUpTo(S, n) == UNION {[1..k -> S] : k \in 0..n}

BvId == <<"B", "V", "1", "n", "Y", "4", "1", "1", "r", "7", "o", "1">>

VideoPath == <<Video, BvId, <<>>>>

InputHosts ==
    {DomainHost(d) : d \in {"example.com", "twitter.com", "x.com", "b23.tv",
                            "www.bilibili.com", "empty.com", "t.me"}}
    \cup {IpHost("127.0.0.1")}

\* every query up to MaxQueryLen on the root path, and a few on a video path
InputUrls ==
    {MkUrl(h, RootPath, FALSE, <<>>) : h \in InputHosts}
    \cup {MkUrl(h, RootPath, TRUE, q) :
            h \in InputHosts, q \in SeqsUpTo(QTokens, MaxQueryLen)}
    \cup {MkUrl(h, VideoPath, FALSE, <<>>) : h \in InputHosts}
    \cup {MkUrl(h, VideoPath, TRUE, q) :
            h \in InputHosts, q \in {<<"u", "=", "a">>, <<"a">>}}

Raw(u) == [valid |-> TRUE, url |-> u]
NotAUrl == [valid |-> FALSE, url |-> NullUrl]

RawInputs == {NotAUrl} \cup {Raw(u) : u \in InputUrls}

\* what the HEAD request can come back with: a transport error, or the final
\* URL after the transport followed the redirects
Response(okay, u) == [ok |-> okay, url |-> u]

Responses ==
    {Response(FALSE, NullUrl)}
    \cup {Response(TRUE, u) : u \in
            {MkUrl(DomainHost("www.bilibili.com"), VideoPath, TRUE,
                   <<"u", "=", "a", "&", "a", "=", "u", "&", "%20">>),
             MkUrl(DomainHost("example.com"), RootPath, TRUE,
                   <<"a", "=", "u", "&", "u", "a">>),
             MkUrl(DomainHost("twitter.com"), VideoPath, FALSE, <<>>),
             MkUrl(DomainHost("b23.tv"), RootPath, TRUE, <<"a", "&", "u">>),
             MkUrl(IpHost("127.0.0.1"), RootPath, TRUE, <<"u">>)}}

NoPrev == [input |-> NotAUrl, rule |-> NullRule, nredirect |-> 0,
           result |-> NoResult]

\* no configuration is being expanded, no hook is called on its own
NoConfig == [entries |-> <<>>, todo |-> {}]
NoHook == [name |-> "", input |-> NullUrl,
           out |-> [kind |-> "none", url |-> NullUrl, msg |-> ""]]

----------------------------------------------------------------------------
\* The state machine of one UrlCleaner: clear calls, one after the other

Init ==
    /\ store \in Stores
    /\ pc = "idle"
    /\ input = NotAUrl
    /\ url = NullUrl
    /\ rule = NullRule
    /\ target = NullUrl
    /\ cleanOut = NoResult
    /\ hookIdx = 1
    /\ invoked = <<>>
    /\ result = NoResult
    /\ nredirect = 0
    /\ gen = 1
    /\ prev = NoPrev
    /\ config = NoConfig
    /\ hook = NoHook
    /\ calls = <<>>

\* clear returns r
Return(r) ==
    /\ pc' = "done"
    /\ result' = r

\* clear from its entry to the redirect await or to the call of clean:
\* Url::parse, url.domain(), get_rule
Enter(raw) ==
    /\ input' = raw
    /\ nredirect' = 0
    /\ invoked' = <<>>
    /\ hookIdx' = 1
    /\ cleanOut' = NoResult
    /\ IF ~raw.valid
       THEN Return(Err("UrlParseError"))
            /\ url' = NullUrl /\ rule' = NullRule /\ target' = NullUrl
       ELSE IF ~domain(raw.url).some
       THEN Return(Err("NoDomain"))
            /\ url' = raw.url /\ rule' = NullRule /\ target' = NullUrl
       ELSE LET g == get_rule(store, domain(raw.url).name)
            IN  IF g.panic
                THEN Return(Panicked)
                     /\ url' = raw.url /\ rule' = NullRule /\ target' = NullUrl
                ELSE /\ url' = raw.url
                     /\ rule' = g.rule
                     /\ result' = NoResult
                     /\ IF g.rule.redirect
                        THEN pc' = "redirect" /\ target' = NullUrl
                        ELSE pc' = "clean" /\ target' = raw.url

\* a caller calls clear(raw)
Clear ==
    /\ pc = "idle"
    /\ \E raw \in RawInputs : Enter(raw)
    /\ UNCHANGED <<store, gen, prev>>
    /\ UNCHANGED others

\* a caller calls clear on the URL an earlier call returned
ClearAgain ==
    /\ pc = "done"
    /\ result.kind = "ok"
    /\ gen < MaxCalls
    /\ Enter(Raw(result.url))
    /\ gen' = gen + 1
    /\ prev' = [input |-> input, rule |-> rule, nredirect |-> nredirect,
                result |-> result]
    /\ UNCHANGED store
    /\ UNCHANGED others

\* Redirect without the second get_rule: the rule of the original domain
\* stays in force
Redirect_KeepsOriginRule ==
    /\ pc = "redirect"
    /\ nredirect' = nredirect + 1
    /\ \E resp \in Responses :
        IF ~resp.ok
        THEN Return(Err("RedirectFail")) /\ UNCHANGED <<url, rule, target>>
        ELSE IF ~domain(resp.url).some
        THEN Return(Panicked) /\ url' = resp.url /\ UNCHANGED <<rule, target>>
        ELSE /\ url' = resp.url
             /\ target' = resp.url
             /\ pc' = "clean"
             /\ UNCHANGED <<rule, result>>
    /\ UNCHANGED <<store, input, cleanOut, hookIdx, invoked, gen, prev>>
    /\ UNCHANGED others

\* Redirect resolving again when the rule of the final URL's domain has
\* redirect = true as well
Redirect_FollowsAgain ==
    /\ pc = "redirect"
    /\ nredirect' = nredirect + 1
    /\ \E resp \in Responses :
        IF ~resp.ok
        THEN Return(Err("RedirectFail")) /\ UNCHANGED <<url, rule, target>>
        ELSE IF ~domain(resp.url).some
        THEN Return(Panicked) /\ url' = resp.url /\ UNCHANGED <<rule, target>>
        ELSE LET g == get_rule(store, domain(resp.url).name)
             IN  IF g.panic
                 THEN Return(Panicked) /\ url' = resp.url
                      /\ UNCHANGED <<rule, target>>
                 ELSE /\ url' = resp.url
                      /\ target' = resp.url
                      /\ rule' = g.rule
                      /\ pc' = IF g.rule.redirect /\ nredirect < 2
                               THEN "redirect" ELSE "clean"
                      /\ UNCHANGED result
    /\ UNCHANGED <<store, input, cleanOut, hookIdx, invoked, gen, prev>>
    /\ UNCHANGED others

\* the HEAD request of a redirect rule comes back: the rule of the final
\* URL's domain replaces the rule of the original one
Redirect ==
    /\ pc = "redirect"
    /\ nredirect' = nredirect + 1
    /\ \E resp \in Responses :
        IF ~resp.ok
        THEN Return(Err("RedirectFail")) /\ UNCHANGED <<url, rule, target>>
        ELSE IF ~domain(resp.url).some
        THEN Return(Panicked) /\ url' = resp.url /\ UNCHANGED <<rule, target>>
        ELSE LET g == get_rule(store, domain(resp.url).name)
             IN  IF g.panic
                 THEN Return(Panicked) /\ url' = resp.url
                      /\ UNCHANGED <<rule, target>>
                 ELSE /\ url' = resp.url
                      /\ target' = resp.url
                      /\ rule' = g.rule
                      /\ pc' = "clean"
                      /\ UNCHANGED result
    /\ UNCHANGED <<store, input, cleanOut, hookIdx, invoked, gen, prev>>
    /\ UNCHANGED others

\* the match on Self::clean(&rule, &url)
Clean ==
    /\ pc = "clean"
    /\ LET c == clean(rule, url)
       IN  /\ cleanOut' = c
           /\ IF c.kind = "ok"
              THEN url' = c.url /\ pc' = "hooks" /\ UNCHANGED result
              ELSE IF c.err = "NoQuery" /\ rule.post_hooks # <<>>
              THEN pc' = "hooks" /\ UNCHANGED <<url, result>>
              ELSE Return(c) /\ UNCHANGED url
    /\ UNCHANGED <<store, input, rule, target, hookIdx, invoked, nredirect,
                   gen, prev>>
    /\ UNCHANGED others

\* the flat_map closure finds no function of that name: the name is dropped
\* from the chain
HookSkip ==
    /\ pc = "hooks"
    /\ hookIdx <= Len(rule.post_hooks)
    /\ rule.post_hooks[hookIdx] \notin POST_HOOKS
    /\ hookIdx' = hookIdx + 1
    /\ UNCHANGED <<store, pc, input, url, rule, target, cleanOut, invoked,
                   result, nredirect, gen, prev>>
    /\ UNCHANGED others

\* HookCall with a fold that does not stop: a failed hook leaves the URL as
\* it was and the chain goes on to the next one
HookCall_GoesOnAfterFailure ==
    /\ pc = "hooks"
    /\ hookIdx <= Len(rule.post_hooks)
    /\ rule.post_hooks[hookIdx] \in POST_HOOKS
    /\ LET hook_name == rule.post_hooks[hookIdx]
       IN  /\ invoked' = Append(invoked, hook_name)
           /\ \E o \in hook_fn(hook_name, url) :
                CASE o.kind = "ok" ->
                        /\ url' = o.url
                        /\ hookIdx' = hookIdx + 1
                        /\ UNCHANGED <<pc, result>>
                  [] o.kind = "err" ->
                        /\ hookIdx' = hookIdx + 1
                        /\ UNCHANGED <<pc, result, url>>
                  [] OTHER ->
                        /\ Return(Panicked)
                        /\ UNCHANGED <<url, hookIdx>>
    /\ UNCHANGED <<store, input, rule, target, cleanOut, nredirect, gen, prev>>
    /\ UNCHANGED others

\* the try_fold closure calls the next hook function on the URL so far
HookCall ==
    /\ pc = "hooks"
    /\ hookIdx <= Len(rule.post_hooks)
    /\ rule.post_hooks[hookIdx] \in POST_HOOKS
    /\ LET hook_name == rule.post_hooks[hookIdx]
       IN  /\ invoked' = Append(invoked, hook_name)
           /\ \E o \in hook_fn(hook_name, url) :
                CASE o.kind = "ok" ->
                        /\ url' = o.url
                        /\ hookIdx' = hookIdx + 1
                        /\ UNCHANGED <<pc, result>>
                  [] o.kind = "err" ->
                        /\ Return(HookErr(hook_name, o.msg))
                        /\ UNCHANGED <<url, hookIdx>>
                  [] OTHER ->
                        /\ Return(Panicked)
                        /\ UNCHANGED <<url, hookIdx>>
    /\ UNCHANGED <<store, input, rule, target, cleanOut, nredirect, gen, prev>>
    /\ UNCHANGED others

\* the chain is exhausted: Ok(new_url)
HooksDone ==
    /\ pc = "hooks"
    /\ hookIdx > Len(rule.post_hooks)
    /\ Return(Ok(url))
    /\ UNCHANGED <<store, input, url, rule, target, cleanOut, hookIdx,
                   invoked, nredirect, gen, prev>>
    /\ UNCHANGED others

Next ==
    \/ Clear
    \/ ClearAgain
    \/ Redirect
    \/ Clean
    \/ HookSkip
    \/ HookCall
    \/ HooksDone

Spec == Init /\ [][Next]_vars

----------------------------------------------------------------------------
\* rules.rs: the configuration and RulesConfig::expand

\* Option<Vec<String>>
None == [some |-> FALSE, list |-> <<>>]
Some(l) == [some |-> TRUE, list |-> l]

ConfigData(sub, redirect, ban) == [sub |-> sub, redirect |-> redirect, ban |-> ban]

\* regex::Regex::new on the source of a pattern, token by token: a literal
\* with or without a leading '^'; an unclosed group is refused
Regex_new(re) ==
    IF \E i \in 1..Len(re) : re[i] = "(" THEN [ok |-> FALSE, re |-> Pat(FALSE, <<>>)]
    ELSE IF re # <<>> /\ Head(re) = "^" THEN [ok |-> TRUE, re |-> Pat(TRUE, Tail(re))]
    ELSE [ok |-> TRUE, re |-> Pat(FALSE, re)]

\* some pattern of the entry makes the unwrap_or_else closure panic
BanPanics(data) == \E i \in 1..Len(data.ban) : ~Regex_new(data.ban[i]).ok

\* the Rule that expand builds for one entry
ExpandRule(data) ==
    [redirect |-> data.redirect,
     rules |-> [i \in 1..Len(data.ban) |-> Regex_new(data.ban[i]).re]]

\* format!("{s}.{base}")
SubKey(s, base) == s \o "." \o base

\* HashMap::insert of the same rule under every key of ks
InsertAll(m, ks, r) ==
    [k \in DOMAIN m \cup ks |-> IF k \in ks THEN r ELSE m[k]]

\* the keys one entry is inserted under: one per listed subdomain, and none
\* for an entry without `sub`
EntryKeys(base, data) ==
    IF data.sub.some
    THEN {SubKey(data.sub.list[i], base) : i \in 1..Len(data.sub.list)}
    ELSE {}

EmptyStore == [k \in {} |-> NullRule]

\* the configurations of the model
ConfigBases == {"default", "twitter.com", "bilibili.com"}

ConfigSubs == {None, Some(<<>>), Some(<<"www">>), Some(<<"www", "m">>)}

ConfigBans == {<<>>, << <<"^", "u">> >>, << <<"u">>, <<"^", "a">> >>, << <<"(">> >>}

ConfigDatas ==
    {ConfigData(sub, rd, ban) :
        sub \in ConfigSubs, rd \in BOOLEAN, ban \in ConfigBans}

Configs == UNION {[bs -> ConfigDatas] : bs \in SUBSET ConfigBases}

\* expand is entered with a configuration: `rules` is a new HashMap
InitExpand ==
    /\ config \in {[entries |-> c, todo |-> DOMAIN c] : c \in Configs}
    /\ store = EmptyStore
    /\ pc = "expand"
    /\ input = NotAUrl
    /\ url = NullUrl
    /\ rule = NullRule
    /\ target = NullUrl
    /\ cleanOut = NoResult
    /\ hookIdx = 1
    /\ invoked = <<>>
    /\ result = NoResult
    /\ nredirect = 0
    /\ gen = 1
    /\ prev = NoPrev
    /\ hook = NoHook
    /\ calls = <<>>

\* one turn of `for (base, data) in inner`; a HashMap yields its entries in
\* no particular order
ExpandEntry ==
    /\ pc = "expand"
    /\ \E base \in config.todo :
        LET data == config.entries[base]
        IN  /\ config' = [config EXCEPT !.todo = @ \ {base}]
            /\ IF BanPanics(data)
               THEN pc' = "panic" /\ UNCHANGED store
               ELSE /\ store' = InsertAll(store, EntryKeys(base, data),
                                          ExpandRule(data))
                    /\ UNCHANGED pc
    /\ UNCHANGED <<input, url, rule, target, cleanOut, hookIdx, invoked,
                   result, nredirect, gen, prev, hook, calls>>

\* the loop is over: RuntimeRules(rules)
ExpandDone ==
    /\ pc = "expand"
    /\ config.todo = {}
    /\ pc' = "built"
    /\ UNCHANGED <<store, input, url, rule, target, cleanOut, hookIdx, invoked,
                   result, nredirect, gen, prev, config, hook, calls>>

NextExpand ==
    \/ ExpandEntry
    \/ ExpandDone

SpecExpand == InitExpand /\ [][NextExpand]_vars

----------------------------------------------------------------------------
\* hooks.rs: a hook function called on its own, as test_bv_to_av does

\* an identifier of the shape BV1??4?1?7??, with the six characters that
\* SELECT reads
Id(c3, c4, c6, c8, c10, c11) ==
    <<"B", "V", "1", c3, c4, "4", c6, "1", c8, "7", c10, c11>>

\* Id("d", "r", "1", "r", "w", "X") has the base-58 sum ADD, and the same
\* with "9" for "X" has ADD - 1.
\* characters for those six places: the first, the last and two inner
\* characters of TABLE, and one that TABLE does not have
IdChars == {"f", "1", "r", "F", "0"}

FullIds ==
    {Id(c3, c4, c6, c8, c10, c11) :
        c3 \in IdChars, c4 \in IdChars, c6 \in IdChars, c8 \in IdChars,
        c10 \in IdChars, c11 \in IdChars}

\* the identifier of test_bv_to_av cut or lengthened to n characters
Stretch(n) ==
    [i \in 1..n |-> IF i <= Len(BvId) THEN BvId[i] ELSE "X"]

\* the second URL of test_bv_to_av
AvSegment == <<"a", "v", "7", "4", "7", "8", "8", "0", "4", "6", "5">>

SmallIds ==
    {Stretch(n) : n \in 0..MaxIdLen}
    \cup {AvSegment,
          <<"b", "v", "1", "n", "Y", "4", "1", "1", "r", "7", "o", "1">>,
          Id("f", "f", "f", "f", "f", "f"),
          Id("n", "Y", "0", "r", "o", "1"),
          Id("d", "r", "1", "r", "w", "X"),
          Id("d", "r", "1", "r", "w", "9")}

Watch == <<"w", "a", "t", "c", "h">>

HookPaths ==
    {RootPath, <<Video>>}
    \cup {<<Video, id>> : id \in SmallIds}
    \cup {<<Video, id, <<>>>> : id \in SmallIds}
    \cup {<<Video, id, <<"x">>, <<"y">>>> : id \in SmallIds}
    \cup {<<Watch, id, <<>>>> : id \in SmallIds}

HookHosts ==
    {DomainHost(d) : d \in {"www.bilibili.com", "twitter.com", "x.com",
                            "www.twitter.com", "fxtwitter.com"}}
    \cup {IpHost("127.0.0.1")}

WithFragment(u, f) == [u EXCEPT !.fragment = f]

HookInputs ==
    {WithFragment(MkUrl(h, p, hq, IF hq THEN <<"p", "=", "1">> ELSE <<>>), f) :
        h \in HookHosts, p \in HookPaths, hq \in BOOLEAN, f \in {"", "t"}}
    \cup {MkUrl(DomainHost("www.bilibili.com"), <<Video, id, <<>>>>, FALSE, <<>>) :
            id \in FullIds}

\* a test is about to call a hook function on a URL
InitHook ==
    /\ hook \in {[NoHook EXCEPT !.input = u] : u \in HookInputs}
    /\ pc = "hook"
    /\ store = EmptyStore
    /\ config = NoConfig
    /\ input = NotAUrl
    /\ url = NullUrl
    /\ rule = NullRule
    /\ target = NullUrl
    /\ cleanOut = NoResult
    /\ hookIdx = 1
    /\ invoked = <<>>
    /\ result = NoResult
    /\ nredirect = 0
    /\ gen = 1
    /\ prev = NoPrev
    /\ calls = <<>>

\* POST_HOOKS[name](&input) returns, or panics
CallHook(name) ==
    /\ pc = "hook"
    /\ \E o \in hook_fn(name, hook.input) :
        hook' = [hook EXCEPT !.name = name, !.out = o]
    /\ pc' = "returned"
    /\ UNCHANGED <<store, input, url, rule, target, cleanOut, hookIdx, invoked,
                   result, nredirect, gen, prev, config, calls>>

CallBvToAv == CallHook("bv_to_av")

CallFixupTwitter == CallHook("fixup_twitter")

NextHook ==
    \/ CallBvToAv
    \/ CallFixupTwitter

SpecHook == InitHook /\ [][NextHook]_vars

----------------------------------------------------------------------------
\* Concurrent clear calls on one UrlCleaner (&self): each call is a future
\* with its own locals, suspended only at the await of the HEAD request

\* the flat_map / try_fold chain of clear as a whole: names without a
\* function are dropped, the first failure ends the fold
RECURSIVE run_hooks(_, _)
run_hooks(names, u) ==
    IF names = <<>> THEN {Ok(u)}
    ELSE IF Head(names) \notin POST_HOOKS THEN run_hooks(Tail(names), u)
    ELSE UNION {CASE o.kind = "ok"  -> run_hooks(Tail(names), o.url)
                  [] o.kind = "err" -> {HookErr(Head(names), o.msg)}
                  [] OTHER          -> {Panicked} :
                o \in hook_fn(Head(names), u)}

\* clear from the match on Self::clean to its return
finish(r, u) ==
    LET c == clean(r, u)
    IN  IF c.kind = "ok" THEN run_hooks(r.post_hooks, c.url)
        ELSE IF c.err = "NoQuery" /\ r.post_hooks # <<>>
        THEN run_hooks(r.post_hooks, u)
        ELSE {c}

NoResponse == Response(FALSE, NullUrl)

\* a call that has not been made yet
IdleCall ==
    [pc |-> "idle", input |-> NotAUrl, url |-> NullUrl, rule |-> NullRule,
     resp |-> NoResponse, result |-> NoResult, overlapped |-> FALSE]

\* the inputs of the concurrent calls
ConcInputs ==
    {NotAUrl,
     Raw(MkUrl(DomainHost("b23.tv"), RootPath, TRUE, <<"a", "=", "u">>)),
     Raw(MkUrl(DomainHost("b23.tv"), RootPath, FALSE, <<>>)),
     Raw(MkUrl(DomainHost("twitter.com"), VideoPath, TRUE, <<"u", "=", "a", "&", "a">>)),
     Raw(MkUrl(DomainHost("www.bilibili.com"), VideoPath, TRUE, <<"a", "&", "u">>)),
     Raw(MkUrl(DomainHost("example.com"), RootPath, TRUE, <<"u", "&", "a", "=">>)),
     Raw(MkUrl(IpHost("127.0.0.1"), RootPath, TRUE, <<"u">>))}

\* a UrlCleaner has been constructed and no call has been made
InitConc ==
    /\ store \in Stores
    /\ calls = [i \in 1..MaxConcurrent |-> IdleCall]
    /\ pc = "serving"
    /\ config = NoConfig
    /\ hook = NoHook
    /\ input = NotAUrl
    /\ url = NullUrl
    /\ rule = NullRule
    /\ target = NullUrl
    /\ cleanOut = NoResult
    /\ hookIdx = 1
    /\ invoked = <<>>
    /\ result = NoResult
    /\ nredirect = 0
    /\ gen = 1
    /\ prev = NoPrev

\* call i ends with result r
Returned(c, r) == [c EXCEPT !.pc = "done", !.result = r]

\* call i runs from the entry of clear to the await of the HEAD request, or
\* to its return when the rule asks for no redirect
Start(i) ==
    /\ calls[i].pc = "idle"
    /\ \E raw \in ConcInputs :
        LET c == [calls[i] EXCEPT !.input = raw, !.url = raw.url]
        IN  IF ~raw.valid
            THEN calls' = [calls EXCEPT ![i] = Returned(c, Err("UrlParseError"))]
            ELSE IF ~domain(raw.url).some
            THEN calls' = [calls EXCEPT ![i] = Returned(c, Err("NoDomain"))]
            ELSE LET g == get_rule(store, domain(raw.url).name)
                 IN  IF g.panic
                     THEN calls' = [calls EXCEPT ![i] = Returned(c, Panicked)]
                     ELSE IF g.rule.redirect
                     THEN calls' = [calls EXCEPT ![i] =
                                      [c EXCEPT !.pc = "await", !.rule = g.rule]]
                     ELSE \E r \in finish(g.rule, raw.url) :
                            calls' = [calls EXCEPT ![i] =
                                        Returned([c EXCEPT !.rule = g.rule], r)]
    /\ UNCHANGED <<store, pc, input, url, rule, target, cleanOut, hookIdx,
                   invoked, result, nredirect, gen, prev, config, hook>>

\* Resume that keeps what it resolved: the rule of the final domain is stored
\* under the domain the call came in with
Resume_CachesRule(i) ==
    /\ calls[i].pc = "await"
    /\ \E resp \in Responses :
        LET c == [calls[i] EXCEPT
                    !.resp = resp,
                    !.overlapped = \E j \in DOMAIN calls : j # i /\ calls[j].pc = "await"]
        IN  IF ~resp.ok
            THEN /\ calls' = [calls EXCEPT ![i] = Returned(c, Err("RedirectFail"))]
                 /\ UNCHANGED store
            ELSE IF ~domain(resp.url).some
            THEN /\ calls' = [calls EXCEPT ![i] =
                                Returned([c EXCEPT !.url = resp.url], Panicked)]
                 /\ UNCHANGED store
            ELSE LET g == get_rule(store, domain(resp.url).name)
                 IN  IF g.panic
                     THEN /\ calls' = [calls EXCEPT ![i] =
                                         Returned([c EXCEPT !.url = resp.url], Panicked)]
                          /\ UNCHANGED store
                     ELSE /\ \E r \in finish(g.rule, resp.url) :
                                calls' = [calls EXCEPT ![i] =
                                   Returned([c EXCEPT !.url = resp.url,
                                                      !.rule = g.rule], r)]
                          /\ store' = [store EXCEPT
                                         ![domain(c.input.url).name] = g.rule]
    /\ UNCHANGED <<pc, input, url, rule, target, cleanOut, hookIdx,
                   invoked, result, nredirect, gen, prev, config, hook>>

\* the HEAD request of call i comes back and the call runs to its return.
\* `overlapped` is history: another call was suspended at that moment.
Resume(i) ==
    /\ calls[i].pc = "await"
    /\ \E resp \in Responses :
        LET c == [calls[i] EXCEPT
                    !.resp = resp,
                    !.overlapped = \E j \in DOMAIN calls : j # i /\ calls[j].pc = "await"]
        IN  IF ~resp.ok
            THEN calls' = [calls EXCEPT ![i] = Returned(c, Err("RedirectFail"))]
            ELSE IF ~domain(resp.url).some
            THEN calls' = [calls EXCEPT ![i] =
                             Returned([c EXCEPT !.url = resp.url], Panicked)]
            ELSE LET g == get_rule(store, domain(resp.url).name)
                 IN  IF g.panic
                     THEN calls' = [calls EXCEPT ![i] =
                                      Returned([c EXCEPT !.url = resp.url], Panicked)]
                     ELSE \E r \in finish(g.rule, resp.url) :
                            calls' = [calls EXCEPT ![i] =
                               Returned([c EXCEPT !.url = resp.url,
                                                  !.rule = g.rule], r)]
    /\ UNCHANGED <<store, pc, input, url, rule, target, cleanOut, hookIdx,
                   invoked, result, nredirect, gen, prev, config, hook>>

StartSome == \E i \in 1..MaxConcurrent : Start(i)

ResumeSome == \E i \in 1..MaxConcurrent : Resume(i)

NextConc ==
    \/ StartSome
    \/ ResumeSome

SpecConc == InitConc /\ [][NextConc]_vars

----------------------------------------------------------------------------
\* Vocabulary of the claims

\* the URL has no query string, or an empty one
NoQueryUrl(u) == ~u.hasQuery \/ u.query = <<>>

\* clear got as far as calling clean
CleanReached == cleanOut # NoResult

\* the rule the store holds for a domain, "default" when it holds none
RuleFor(d) == IF d \in DOMAIN store THEN store[d] ELSE store["default"]

\* the pairs of a query whose key no pattern of the rule matches, in order
Unmatched(r, q) ==
    SelectSeq(parse(q),
              LAMBDA p : \A i \in 1..Len(r.rules) : ~is_match(r.rules[i], p.k))

\* the query is made of parameters: every '&'-separated piece is there and
\* starts with a key
ProperParams(q) ==
    \A i \in 1..Len(Split(q, "&")) :
        Split(q, "&")[i] # <<>> /\ Head(Split(q, "&")[i]) # "="

\* the hook chain as one fold: every <<result, names called>> that applying
\* the named hooks in order, each to the output of the one before, and
\* stopping at the first failure, can end in
RECURSIVE Chain(_, _, _)
Chain(names, u, called) ==
    IF names = <<>> THEN {<<Ok(u), called>>}
    ELSE LET n == Head(names)
             now == Append(called, n)
         IN  UNION {CASE o.kind = "ok"  -> Chain(Tail(names), o.url, now)
                      [] o.kind = "err" -> {<<HookErr(n, o.msg), now>>}
                      [] OTHER          -> {<<Panicked, now>>} :
                    o \in hook_fn(n, u)}

\* the URL the hook chain starts from: the filtered URL, or the URL as it was
\* when there was no query to filter
ChainInput == IF cleanOut.kind = "ok" THEN cleanOut.url ELSE target

\* clean succeeded, or it found no query under a rule that has hooks
ChainEntered ==
    \/ cleanOut.kind = "ok"
    \/ cleanOut = Err("NoQuery") /\ rule.post_hooks # <<>>

----------------------------------------------------------------------------
\* C1: for every input URL whose domain has no entry in the store, when the
\* store has no "default" entry either, clear returns the error NoMatchRule
\* (a typed error, not a crash and not a success).
C1_DoubleMissIsNoMatchRule ==
    (/\ pc = "done"
     /\ input.valid
     /\ domain(input.url).some
     /\ domain(input.url).name \notin DOMAIN store
     /\ "default" \notin DOMAIN store)
    => result = Err("NoMatchRule")

\* C2: for every URL with no query string or an empty one, under a rule
\* with no hooks, whatever its denylist is, clear returns NoQuery.
C2_NoQueryNoHooksIsNoQuery ==
    (/\ pc = "done"
     /\ CleanReached
     /\ NoQueryUrl(target)
     /\ rule.post_hooks = <<>>)
    => result = Err("NoQuery")

\* C3: for every URL with no query string or an empty one, under a rule with
\* at least one hook, whatever its denylist is, filtering is a no-op, the
\* unmodified URL goes into the hook chain and clear returns neither NoQuery
\* nor NoMatchRule.
C3_NoQueryWithHooksRunsHooks ==
    (/\ pc = "done"
     /\ CleanReached
     /\ NoQueryUrl(target)
     /\ rule.post_hooks # <<>>)
    => /\ result \notin {Err("NoQuery"), Err("NoMatchRule")}
       /\ (\A i \in 1..Len(rule.post_hooks) : rule.post_hooks[i] \in POST_HOOKS)
            => <<result, invoked>> \in Chain(rule.post_hooks, target, <<>>)

\* C4: for every URL with a non-empty query and a rule with a non-empty
\* denylist, the query of the cleaned URL consists of exactly the key/value
\* pairs of the original query whose key no denylist pattern matches, in
\* their original order; values are never matched against.
C4_CleanedQueryIsUnmatchedPairs ==
    (/\ CleanReached
     /\ ~NoQueryUrl(target)
     /\ rule.rules # <<>>
     /\ cleanOut.kind = "ok")
    => parse(cleanOut.url.query) = Unmatched(rule, target.query)

\* C5: if filtering removes no pair (no query key is matched by any denylist
\* pattern), clear returns NothingToClear, for key=value, key-only and key=
\* parameters alike, and no hook is run.
C5_NothingRemovedIsNothingToClear ==
    (/\ pc = "done"
     /\ CleanReached
     /\ ~NoQueryUrl(target)
     /\ rule.rules # <<>>
     /\ ProperParams(target.query)
     /\ Unmatched(rule, target.query) = parse(target.query))
    => result = Err("NothingToClear") /\ invoked = <<>>

\* this call is a second clear, on the URL c that the call before it
\* returned under a rule without hooks and without redirect
SecondCallDone ==
    /\ pc = "done"
    /\ gen > 1
    /\ prev.rule.post_hooks = <<>>
    /\ prev.nredirect = 0

\* C6: for every URL u on which clear succeeds with c under a rule without
\* hooks and without redirect, clear on c runs under the same rule and is a
\* no-op: it yields NothingToClear and never another cleaned URL.  A c that
\* the first call left without any query is let through with NoQuery, the
\* answer of clean for a URL without query.
C6_SecondClearIsNoOp ==
    SecondCallDone =>
        /\ rule = prev.rule
        /\ IF NoQueryUrl(input.url)
           THEN result \in {Err("NothingToClear"), Err("NoQuery")}
           ELSE result = Err("NothingToClear")

\* the pieces of a query that clean keeps, as written: the non-empty pieces
\* whose decoded key no pattern of the rule matches
RECURSIVE KeptPieces(_, _)
KeptPieces(r, pieces) ==
    IF pieces = <<>> THEN <<>>
    ELSE IF Head(pieces) # <<>> /\ is_clean(r, ParseOne(Head(pieces)))
    THEN <<Head(pieces)>> \o KeptPieces(r, Tail(pieces))
    ELSE KeptPieces(r, Tail(pieces))

\* how a parameter is written: a key alone, a key with '=' and nothing
\* after it, or a key with a value
Form(piece) ==
    IF IndexOf(piece, "=") = 0 THEN "key-only"
    ELSE IF IndexOf(piece, "=") = Len(piece) THEN "empty-value"
    ELSE "valued"

Forms(pieces) == [i \in 1..Len(pieces) |-> Form(pieces[i])]

\* C7: in the rebuilt query a key-only parameter stays key-only and an
\* empty-value parameter (key=) stays an empty-value parameter: the
\* surviving parameters keep their forms.
C7_ParameterFormsPreserved ==
    (/\ CleanReached
     /\ ProperParams(target.query)
     /\ cleanOut.kind = "ok"
     /\ cleanOut.url.hasQuery)
    => Forms(Split(cleanOut.url.query, "&"))
         = Forms(KeptPieces(rule, Split(target.query, "&")))

\* C8: when the rule of the input URL's domain has redirect = true, the
\* filtering and the hook chain use the rule of the resolved URL's domain
\* (the default rule when the store has none for it), never the rule of the
\* original domain.
C8_RedirectUsesDestinationRule ==
    (nredirect > 0 /\ pc \in {"clean", "hooks", "done"} /\ target # NullUrl)
    => LET dest == RuleFor(domain(target).name)
       IN  /\ rule = dest
           /\ CleanReached => cleanOut = clean(dest, target)
           /\ (/\ pc = "done"
               /\ ChainEntered
               /\ \A i \in 1..Len(dest.post_hooks) : dest.post_hooks[i] \in POST_HOOKS)
                => <<result, invoked>> \in Chain(dest.post_hooks, ChainInput, <<>>)

\* C8 witness: a call redirected from a domain to another whose rule
\* differs, filtered by the destination's rule and finished by its hooks
C8_Witness ==
    /\ pc = "done"
    /\ nredirect = 1
    /\ domain(input.url).name # domain(target).name
    /\ RuleFor(domain(input.url).name) # RuleFor(domain(target).name)
    /\ domain(target).name \in DOMAIN store
    /\ cleanOut.kind = "ok"
    /\ invoked # <<>>
    /\ result.kind = "ok"

\* every hook the rule names has a function
AllRegistered == \A i \in 1..Len(rule.post_hooks) : rule.post_hooks[i] \in POST_HOOKS

\* C9: the hook chain applies the rule's hooks in declared order, each to the
\* output of the previous one: for hooks [A, B] the result is B(A(url)); if A
\* fails, clear returns HookExecutionError with A's name and A's error text
\* and B is never invoked.
C9_HookChainInOrder ==
    /\ (pc = "done" /\ ChainEntered /\ AllRegistered)
         => <<result, invoked>> \in Chain(rule.post_hooks, ChainInput, <<>>)
    /\ (pc = "hooks" /\ AllRegistered)
         => \E o \in Chain(SubSeq(rule.post_hooks, 1, hookIdx - 1), ChainInput, <<>>) :
                o = <<Ok(url), invoked>>

\* C9 witness: hooks [A, B] both ran and the result is B(A(url)), which is
\* neither A(url) nor B(url)
C9_Witness ==
    /\ pc = "done"
    /\ Len(rule.post_hooks) = 2
    /\ invoked = rule.post_hooks
    /\ result.kind = "ok"
    /\ \A o \in hook_fn(invoked[1], ChainInput) \cup hook_fn(invoked[2], ChainInput) :
            o.kind = "ok" /\ o.url # result.url

\* C10: if the rule's hook list has a name that is not in the registry, then
\* when the chain reaches that name clear fails with
\* HookExecutionError(name, "not found"); the name is not skipped and no later
\* hook runs.
C10_MissingHookIsNotFound ==
    (/\ pc = "done"
     /\ ChainEntered
     /\ rule.post_hooks # <<>>
     /\ rule.post_hooks[1] \notin POST_HOOKS)
    => result = HookErr(rule.post_hooks[1], "not found") /\ invoked = <<>>

----------------------------------------------------------------------------
\* the rule an entry of the configuration stands for
EntryRuleIs(r, data) ==
    /\ r.redirect = data.redirect
    /\ Len(r.rules) = Len(data.ban)
    /\ \A i \in 1..Len(data.ban) : r.rules[i] = Regex_new(data.ban[i]).re

\* the key is in the store, with the rule of the entry
StoredAs(k, data) == k \in DOMAIN store /\ EntryRuleIs(store[k], data)

\* C11: when the store has been constructed, for every configuration entry:
\* if it lists subdomains the store has one key "{subdomain}.{base}" per
\* listed subdomain, with the entry's rule; if it lists none the store has the
\* key {base} itself with the entry's rule ("default" included).  No entry is
\* dropped.
C11_EveryEntryInStore ==
    pc = "built" =>
        \A base \in DOMAIN config.entries :
            LET data == config.entries[base]
            IN  IF data.sub.some /\ data.sub.list # <<>>
                THEN \A i \in 1..Len(data.sub.list) :
                        StoredAs(SubKey(data.sub.list[i], base), data)
                ELSE StoredAs(base, data)

----------------------------------------------------------------------------
\* C17: when the store has no "default" entry but has an entry for the input
\* URL's domain, clear proceeds with that entry's rule as it would if a
\* default existed: it does not crash, and without redirect the rule in force
\* is the entry's.
C17_NoDefaultExplicitEntryProceeds ==
    (/\ pc = "done"
     /\ input.valid
     /\ domain(input.url).some
     /\ "default" \notin DOMAIN store
     /\ domain(input.url).name \in DOMAIN store)
    => /\ result.kind # "panic"
       /\ nredirect = 0 => rule = store[domain(input.url).name]

\* the call found the rule of the input URL's domain and is past the place
\* of the redirect resolution
PastRedirect ==
    /\ pc \in {"clean", "hooks", "done"}
    /\ input.valid
    /\ domain(input.url).some
    /\ "default" \in DOMAIN store

\* C18: one clear call makes at most one outbound redirect resolution (with
\* its one rule re-lookup): exactly one when the rule of the original domain
\* has redirect = true, none when it has redirect = false, and no second one
\* even if the rule found for the resolved domain has redirect = true too.
C18_AtMostOneResolution ==
    /\ nredirect <= 1
    /\ PastRedirect =>
        nredirect = IF RuleFor(domain(input.url).name).redirect THEN 1 ELSE 0

\* C18 witness: a call that was redirected to a domain whose rule has
\* redirect = true went on to the filtering and finished
C18_Witness ==
    /\ pc = "done"
    /\ nredirect = 1
    /\ domain(target).some
    /\ RuleFor(domain(target).name).redirect
    /\ rule.redirect
    /\ CleanReached

\* C19: when the redirect resolution succeeds but the resolved URL has no
\* domain (an IP-address host), clear returns NoDomain and does not panic;
\* whatever the redirect comes back with, clear ends in a URL or a typed
\* error.
C19_RedirectWithoutDomainIsNoDomain ==
    (pc = "done" /\ nredirect > 0)
    => /\ result.kind \in {"ok", "err"}
       /\ ~domain(url).some => result = Err("NoDomain")

----------------------------------------------------------------------------
\* Vocabulary of the claim about concurrent calls

\* the hooks of a rule that have a function, in their order
Registered(names) == SelectSeq(names, LAMBDA n : n \in POST_HOOKS)

\* what filtering u under r and then the hook chain of r can end in
AloneFinish(r, u) ==
    LET c == clean(r, u)
    IN  IF c.kind = "ok"
        THEN {o[1] : o \in Chain(Registered(r.post_hooks), c.url, <<>>)}
        ELSE IF c = Err("NoQuery") /\ r.post_hooks # <<>>
        THEN {o[1] : o \in Chain(Registered(r.post_hooks), u, <<>>)}
        ELSE {c}

\* the results of one clear call that runs alone on the store, for an input
\* and the response its HEAD request gets if it makes one
AloneResults(raw, resp) ==
    IF ~raw.valid THEN {Err("UrlParseError")}
    ELSE IF raw.url.host.kind # "domain" THEN {Err("NoDomain")}
    ELSE IF "default" \notin DOMAIN store THEN {Panicked}
    ELSE IF ~RuleFor(raw.url.host.name).redirect
    THEN AloneFinish(RuleFor(raw.url.host.name), raw.url)
    ELSE IF ~resp.ok THEN {Err("RedirectFail")}
    ELSE IF resp.url.host.kind # "domain" THEN {Panicked}
    ELSE AloneFinish(RuleFor(resp.url.host.name), resp.url)

\* every finished call has a result of its input and response alone
ResultsAsAlone ==
    \A i \in DOMAIN calls :
        calls[i].pc = "done"
            => calls[i].result \in AloneResults(calls[i].input, calls[i].resp)

\* two finished calls with the same input and the same response have the
\* same result, whatever ran in between
SameInputSameResult ==
    \A i, j \in DOMAIN calls :
        (/\ calls[i].pc = "done"
         /\ calls[j].pc = "done"
         /\ calls[i].input = calls[j].input
         /\ calls[i].resp = calls[j].resp)
        => calls[i].result = calls[j].result

\* C16: any number of clear calls may run concurrently on one shared store
\* and hook registry, interleaved at the await of the redirect resolution: no
\* call modifies the store, and each call's result is the result it would
\* produce alone with the same input and the same redirect response; no
\* result depends on other or earlier calls.
C16_CallsAreIndependent ==
    /\ [](ResultsAsAlone /\ SameInputSameResult)
    /\ [][store' = store]_vars

\* C16 witness: two calls with the same input were suspended at the same
\* time, got different responses and ended in different cleaned URLs
C16_Witness ==
    /\ calls[1].pc = "done"
    /\ calls[2].pc = "done"
    /\ calls[1].overlapped
    /\ calls[1].input = calls[2].input
    /\ calls[1].resp # calls[2].resp
    /\ calls[1].result.kind = "ok"
    /\ calls[2].result.kind = "ok"
    /\ calls[1].result # calls[2].result

----------------------------------------------------------------------------
\* Vocabulary of the claims about a hook called on its own

\* the named hook was called on hook.input and hook.out is what came of it
HookReturned(n) == pc = "returned" /\ hook.name = n

\* the URL has what bv_to_av asks of a video URL: a domain, the first
\* segment "video" and a second segment of 12 characters that starts with BV
WellFormedBv(u) ==
    /\ domain(u).some
    /\ Len(u.path) >= 2
    /\ u.path[1] = Video
    /\ IsPrefix(<<"B", "V">>, u.path[2])
    /\ Len(u.path[2]) = 12

\* the six characters that SELECT reads are all in the alphabet
InAlphabet(id) ==
    \A i \in 1..6 : \E k \in 1..Len(TABLE) : TABLE[k] = id[SELECT[i] + 1]

\* translate(id[SELECT[i]]) for i = 0..5, the digit of 58^0 first
Digits58(id) == [i \in 1..6 |-> TRANSLATE(id[SELECT[i] + 1])]

\* a divided by a small number: quotient and remainder
DivModSmall(a, m) ==
    LET t4 == a[4]
        t3 == (t4 % m) * Base + a[3]
        t2 == (t3 % m) * Base + a[2]
        t1 == (t2 % m) * Base + a[1]
    IN  [q |-> Limbs(t1 \div m, t2 \div m, t3 \div m, t4 \div m), r |-> t1 % m]

\* the n lowest base-58 digits of a, lowest first, and what is left above
RECURSIVE Base58(_, _)
Base58(a, n) ==
    IF n = 0 THEN [digits |-> <<>>, rest |-> a]
    ELSE LET d == DivModSmall(a, 58)
             up == Base58(d.q, n - 1)
         IN  [digits |-> <<d.r>> \o up.digits, rest |-> up.rest]

\* a >= b for two numbers given by their digits, lowest first
RECURSIVE DigitsGE(_, _)
DigitsGE(a, b) ==
    IF a = <<>> THEN TRUE
    ELSE LET n == Len(a)
         IN  IF a[n] # b[n] THEN a[n] > b[n]
             ELSE DigitsGE(SubSeq(a, 1, n - 1), SubSeq(b, 1, n - 1))

\* the base-58 sum of the identifier is at least ADD
SumAtLeastADD(id) == DigitsGE(Digits58(id), Base58(ADD, 6).digits)

\* the number a decimal numeral stands for
RECURSIVE ParseDecimal(_)
ParseDecimal(ds) ==
    IF ds = <<>> THEN Zero64
    ELSE AddU(MulSmall(ParseDecimal(SubSeq(ds, 1, Len(ds) - 1)), 10),
              U64(IndexOf(DigitChars, ds[Len(ds)]) - 1))

IsNumeral(ds) ==
    /\ ds # <<>>
    /\ \A i \in 1..Len(ds) : IndexOf(DigitChars, ds[i]) > 0
    /\ Len(ds) > 1 => ds[1] # "0"

\* C12: bv_to_av rejects with an error, without panicking, every URL whose
\* second path segment does not start with "BV" or is not 12 characters long,
\* every URL with fewer than two path segments and every URL whose first
\* segment is not "video"; such input is never decoded or passed through.
C12_BvRejectsMalformed ==
    (HookReturned("bv_to_av") /\ ~WellFormedBv(hook.input))
    => hook.out.kind = "err"

\* C13: for every valid identifier bv_to_av computes
\* id = (sum - ADD) XOR XOR_CONSTANT with sum the base-58 number whose digit
\* of 58^i is translate(id[SELECT[i]]): the segment becomes "av" and the
\* decimal numeral of a number x such that (x XOR XOR_CONSTANT) + ADD has
\* exactly those base-58 digits; the same segment always gives the same id,
\* and BV1nY411r7o1 gives 267692137.
C13_BvDecodes ==
    (/\ HookReturned("bv_to_av")
     /\ WellFormedBv(hook.input)
     /\ InAlphabet(hook.input.path[2])
     /\ SumAtLeastADD(hook.input.path[2]))
    => /\ hook.out.kind = "ok"
       /\ LET seg == hook.out.url.path[2]
              num == SubSeq(seg, 3, Len(seg))
              d == XorU(ParseDecimal(num), XOR)
              sum == Base58(AddU(d, ADD), 6)
          IN  /\ IsPrefix(<<"a", "v">>, seg)
              /\ IsNumeral(num)
              /\ d[4] < Base \div 2
              /\ sum.digits = Digits58(hook.input.path[2])
              /\ sum.rest = Zero64
       /\ hook.input.path[2] = BvId
            => hook.out.url.path[2]
                 = <<"a", "v", "2", "6", "7", "6", "9", "2", "1", "3", "7">>

\* C13 witness: an identifier other than the one of the test was decoded
C13_Witness ==
    /\ HookReturned("bv_to_av")
    /\ WellFormedBv(hook.input)
    /\ hook.input.path[2] = Id("F", "r", "r", "1", "f", "F")
    /\ hook.out.kind = "ok"

\* C14: the URL bv_to_av returns differs from its input only in the
\* identifier segment, which becomes "av{id}": the first segment, every
\* segment after the identifier (a trailing slash or its absence included),
\* the query and the host are unchanged.
C14_BvChangesOnlyIdSegment ==
    (HookReturned("bv_to_av") /\ hook.out.kind = "ok")
    => /\ hook.out.url.host = hook.input.host
       /\ hook.out.url.hasQuery = hook.input.hasQuery
       /\ hook.out.url.query = hook.input.query
       /\ Len(hook.out.url.path) = Len(hook.input.path)
       /\ \A k \in 1..Len(hook.input.path) :
            IF k = 2 THEN IsPrefix(<<"a", "v">>, hook.out.url.path[k])
            ELSE hook.out.url.path[k] = hook.input.path[k]

\* the fixed table of fixup_twitter
FixupTable == [d \in {"twitter.com", "x.com"} |->
                 IF d = "twitter.com" THEN "fxtwitter.com" ELSE "fixupx.com"]

\* C15: fixup_twitter returns an error for every URL whose domain is not a
\* key of its table (twitter.com, x.com); for a URL whose domain is a key it
\* returns a copy in which only the host is replaced by the mapped domain
\* and scheme, path, query and fragment are unchanged.
C15_FixupReplacesOnlyHost ==
    HookReturned("fixup_twitter") =>
        IF hook.input.host.kind = "domain"
           /\ hook.input.host.name \in DOMAIN FixupTable
        THEN /\ hook.out.kind = "ok"
             /\ hook.out.url.host = DomainHost(FixupTable[hook.input.host.name])
             /\ hook.out.url.scheme = hook.input.scheme
             /\ hook.out.url.path = hook.input.path
             /\ hook.out.url.hasQuery = hook.input.hasQuery
             /\ hook.out.url.query = hook.input.query
             /\ hook.out.url.fragment = hook.input.fragment
        ELSE hook.out.kind = "err"

\* C15 witness: a URL of x.com with a path, a query and a fragment came back
\* on fixupx.com
C15_Witness ==
    /\ HookReturned("fixup_twitter")
    /\ hook.input.host = DomainHost("x.com")
    /\ Len(hook.input.path) > 2
    /\ hook.input.query # <<>>
    /\ hook.input.fragment # ""
    /\ hook.out.kind = "ok"
    /\ hook.out.url.host = DomainHost("fixupx.com")

\* C20: in bv_to_av the u64 arithmetic never underflows and no table is
\* indexed outside: for every segment that passes the validation each selected
\* character is in the alphabet and the base-58 sum is at least ADD, so
\* (sum - ADD) is computed without wraparound or panic; a segment for which
\* this would not hold is rejected with an error.
C20_BvArithmeticIsSafe ==
    (HookReturned("bv_to_av") /\ WellFormedBv(hook.input))
    => /\ hook.out.kind # "panic"
       /\ hook.out.kind = "ok"
            => /\ InAlphabet(hook.input.path[2])
               /\ SumAtLeastADD(hook.input.path[2])

====
